---- MODULE Spec2Model ----
(***************************************************************************)
(* A model of mediaforge's transcode operations                            *)
(* (src/src/processing/ffmpeg/conversion.py) and of its context media      *)
(* resolver (src/src/utils/scandiscord.py).                                *)
(*                                                                         *)
(* SpecConv   : allreencode / forcereencode applied to managed files.      *)
(* Spec       : imagesearch walking trigger message, reply target, history.*)
(* SpecTenor  : tenorsearch walking reply target or history.               *)
(***************************************************************************)
EXTENDS Integers, Sequences, FiniteSets, TLC

VARIABLES
    \* ---- conversion.py -------------------------------------------------
    files,          \* the temp-file ledger: handle i is files[i]
    commands,       \* every ffmpeg invocation made so far (run_command calls)
    frameRateCache, \* handles for which lru_cache holds a get_frame_rate coroutine
    last,           \* the most recent orchestration call and what it did
    ncalls,         \* number of orchestration calls made
    \* ---- scandiscord.py ------------------------------------------------
    ctx,            \* the command context: message, reference, channel history
    nargs,          \* imagesearch's nargs
    ignore,         \* imagesearch's ignore (None or a set of attachment urls)
    pc,             \* where the running search is
    cur,            \* the walk position of the message being processed
    tasks,          \* the embed tasks of the message being processed
    outfiles,       \* imagesearch's outfiles
    origin,         \* for each element of outfiles, the walk position it came from
    seen_messages,  \* imagesearch's seen_messages
    visited,        \* walk positions handed to handlemessagesave / handletenor, in order
    ret,            \* the value returned by the search (or Raise)
    \* ---- ffprobe.py ----------------------------------------------------
    lruCache,       \* per lru_cache-decorated probe: its keys, least recently used first
    probeRuns,      \* per probe and file: the external ffprobe runs made
    probeCalls,     \* per probe and file: the calls made
    probeLast       \* the most recent probe call and how it ended

convVars == <<files, commands, frameRateCache, last, ncalls>>
searchVars == <<ctx, nargs, ignore, pc, cur, tasks, outfiles, origin,
                seen_messages, visited, ret>>
probeVars == <<lruCache, probeRuns, probeCalls, probeLast>>
vars == <<files, commands, frameRateCache, last, ncalls,
          ctx, nargs, ignore, pc, cur, tasks, outfiles, origin,
          seen_messages, visited, ret,
          lruCache, probeRuns, probeCalls, probeLast>>


(***************************************************************************)
(*                         conversion.py                                   *)
(***************************************************************************)

\* Bound on the number of orchestration calls in one behaviour.
MaxCalls == 2

\* The result of an orchestration call that raised: no handle is returned.
\* Handles are the positive indices of the ledger.
NoHandle == 0

NoCodec == "none"
IMAGE == "IMAGE"
VIDEO == "VIDEO"
AUDIO == "AUDIO"
GIF == "GIF"
UNKNOWN == "UNKNOWN"
MediaKinds == {IMAGE, VIDEO, AUDIO, GIF, UNKNOWN}
VCodecs == {"h264", "gif", "png", "vp9", NoCodec}
ACodecs == {"aac", "mp3", NoCodec}

\* What the probes report of an input file: file.mediatype(), the first video
\* and audio stream's codec names, and the handle's lock_codec attribute.
\* Visual kinds carry a video stream, still/animated images carry no audio,
\* AUDIO carries an audio stream.
InputFiles ==
    { f \in [kind : MediaKinds, vcodec : VCodecs, acodec : ACodecs,
             lock_codec : BOOLEAN, ext : {"in"}] :
        /\ f.kind \in {IMAGE, VIDEO, GIF} => f.vcodec # NoCodec
        /\ f.kind \in {IMAGE, GIF} => f.acodec = NoCodec
        /\ f.kind = AUDIO => f.acodec # NoCodec }

\* reserve_tempfile(ext): a fresh handle; nothing is known of its content until
\* an encoder has written it.
reserve_tempfile(extension) ==
    [kind |-> UNKNOWN, vcodec |-> NoCodec, acodec |-> NoCodec,
     lock_codec |-> FALSE, ext |-> extension]

\* The file an encoder run leaves behind under the reserved name.
Written(extension, k, vc, ac) ==
    [kind |-> k, vcodec |-> vc, acodec |-> ac, lock_codec |-> FALSE, ext |-> extension]

\* One run_command("ffmpeg", ...) call: input handle, the -c:v / -c:a choices,
\* output handle.
Cmd(name, input, vcode, acode, out) ==
    [op |-> name, input |-> input, vcode |-> vcode, acode |-> acode, out |-> out]

\* What one (sub)operation did: its result (a handle or Raise), the files it
\* reserved, the encoder invocations it made, the get_frame_rate cache entries
\* it added.
Outcome(result, new, cmds, fps) ==
    [result |-> result, new |-> new, cmds |-> cmds, fps |-> fps]

\* Python's None where a dict, resp. a pair, is expected.
NoDict == [none |-> TRUE]
NoPair == <<>>

\* get_vcodec / get_acodec return the stream's dict ({"codec_name": ...}) or None.
get_vcodec(f) == IF f.vcodec = NoCodec THEN NoDict ELSE [codec_name |-> f.vcodec]
get_acodec(f) == IF f.acodec = NoCodec THEN NoDict ELSE [codec_name |-> f.acodec]

\* va_codecs returns the pair of codec NAMES (NoCodec standing for the None of a
\* missing stream), or None when the file has no stream at all.
va_codecs(f) ==
    IF f.vcodec = NoCodec /\ f.acodec = NoCodec THEN NoPair
    ELSE <<f.vcodec, f.acodec>>

\* Python's == between the value get_acodec returns (a dict or None) and a
\* str: values of different types never compare equal.
DictEqStr(d, s) == FALSE

\* videotogif: pass-through when the video codec is gif, else palette conversion.
\* fs: ledger, cache: frameRateCache, ok: whether ffmpeg exits 0.
videotogif(video, fs, cache, ok) ==
    LET f == fs[video]
        outname == Len(fs) + 1
    IN  IF get_vcodec(f) = NoDict
        THEN Outcome(NoHandle, <<>>, <<>>, {})   \* None["codec_name"]
        ELSE IF get_vcodec(f).codec_name = "gif"
        THEN Outcome(video, <<>>, <<>>, {})
        ELSE IF video \in cache
        \* lru_cache hands back the coroutine already awaited: RuntimeError
        THEN Outcome(NoHandle, <<reserve_tempfile("gif")>>, <<>>, {})
        ELSE IF ok
        THEN Outcome(outname, <<Written("gif", GIF, "gif", NoCodec)>>,
                     <<Cmd("videotogif", video, "gif", NoCodec, outname)>>, {video})
        ELSE Outcome(NoHandle, <<reserve_tempfile("gif")>>,
                     <<Cmd("videotogif", video, "gif", NoCodec, outname)>>, {video})

video_reencode(video, fs, ok) ==
    LET f == fs[video]
        outname == Len(fs) + 1
        va == va_codecs(f)
    IN  IF f.kind \notin {VIDEO, GIF} THEN Outcome(NoHandle, <<>>, <<>>, {})  \* assert
        ELSE IF va = NoPair THEN Outcome(NoHandle, <<>>, <<>>, {})   \* unpacking None
        ELSE LET vcode == IF va[1] = "h264" THEN "copy" ELSE "libx264"
                 acode == IF va[2] = "aac" THEN "copy" ELSE "aac"
                 c == Cmd("video_reencode", video, vcode, acode, outname)
             IN  IF ok
                 THEN Outcome(outname,
                        <<Written("mp4", VIDEO, "h264",
                                  IF f.acodec = NoCodec THEN NoCodec ELSE "aac")>>,
                        <<c>>, {})
                 ELSE Outcome(NoHandle, <<reserve_tempfile("mp4")>>, <<c>>, {})

audio_reencode(audio, fs, ok) ==
    LET f == fs[audio]
        outname == Len(fs) + 1
        acodec == get_acodec(f)
        acode == IF DictEqStr(acodec, "aac") THEN "copy" ELSE "aac"
        c == Cmd("audio_reencode", audio, NoCodec, acode, outname)
    IN  IF ok
        THEN Outcome(outname, <<Written("m4a", AUDIO, NoCodec, "aac")>>, <<c>>, {})
        ELSE Outcome(NoHandle, <<reserve_tempfile("m4a")>>, <<c>>, {})

\* mediatoimage(media, imagetype): one frame, stream-copied when the codec
\* already is the image type.
mediatoimage(media, imagetype, fs, ok) ==
    LET f == fs[media]
        outname == Len(fs) + 1
    IN  IF get_vcodec(f) = NoDict
        THEN Outcome(NoHandle, <<reserve_tempfile(imagetype)>>, <<>>, {})
        ELSE LET vcode == IF get_vcodec(f).codec_name = imagetype
                          THEN "copy" ELSE imagetype
                 c == Cmd("mediatoimage", media, vcode, NoCodec, outname)
             IN  IF ok
                 THEN Outcome(outname, <<Written(imagetype, IMAGE, imagetype, NoCodec)>>,
                              <<c>>, {})
                 ELSE Outcome(NoHandle, <<reserve_tempfile(imagetype)>>, <<c>>, {})

mediatopng(media, fs, ok) == mediatoimage(media, "png", fs, ok)

\* allreencode with the lock_codec test removed.
allreencodeNoLock(file, fs, cache, ok) ==
    LET mt == fs[file].kind
    IN  CASE mt = IMAGE -> mediatopng(file, fs, ok)
          [] mt = VIDEO -> video_reencode(file, fs, ok)
          [] mt = AUDIO -> audio_reencode(file, fs, ok)
          [] mt = GIF   -> videotogif(file, fs, cache, ok)
          [] OTHER      -> Outcome(NoHandle, <<>>, <<>>, {})

\* allreencode whose GIF branch converts without looking at the codec.
allreencodeGifAlways(file, fs, cache, ok) ==
    IF fs[file].lock_codec THEN Outcome(file, <<>>, <<>>, {})
    ELSE LET mt == fs[file].kind
             outname == Len(fs) + 1
         IN  CASE mt = IMAGE -> mediatopng(file, fs, ok)
               [] mt = VIDEO -> video_reencode(file, fs, ok)
               [] mt = AUDIO -> audio_reencode(file, fs, ok)
               [] mt = GIF   ->
                    IF ok THEN Outcome(outname, <<Written("gif", GIF, "gif", NoCodec)>>,
                                 <<Cmd("videotogif", file, "gif", NoCodec, outname)>>, {file})
                    ELSE Outcome(NoHandle, <<reserve_tempfile("gif")>>,
                                 <<Cmd("videotogif", file, "gif", NoCodec, outname)>>, {file})
               [] OTHER      -> Outcome(NoHandle, <<>>, <<>>, {})

allreencode(file, fs, cache, ok) ==
    IF fs[file].lock_codec THEN Outcome(file, <<>>, <<>>, {})
    ELSE LET mt == fs[file].kind
         IN  CASE mt = IMAGE -> mediatopng(file, fs, ok)
               [] mt = VIDEO -> video_reencode(file, fs, ok)
               [] mt = AUDIO -> audio_reencode(file, fs, ok)
               [] mt = GIF   -> videotogif(file, fs, cache, ok)
               [] OTHER      -> Outcome(NoHandle, <<>>, <<>>, {})

forcereencode(file, fs, cache, ok) ==
    LET mt == fs[file].kind
        outname == Len(fs) + 1
    IN  CASE mt = IMAGE ->
               LET c == Cmd("forcereencode", file, "png", NoCodec, outname)
               IN  IF ok THEN Outcome(outname, <<Written("png", IMAGE, "png", NoCodec)>>,
                                      <<c>>, {})
                   ELSE Outcome(NoHandle, <<reserve_tempfile("png")>>, <<c>>, {})
          [] mt = VIDEO ->
               LET c == Cmd("forcereencode", file, "libx264", "aac", outname)
               IN  IF ok THEN Outcome(outname,
                                <<Written("mp4", VIDEO, "h264",
                                    IF fs[file].acodec = NoCodec THEN NoCodec ELSE "aac")>>,
                                <<c>>, {})
                   ELSE Outcome(NoHandle, <<reserve_tempfile("mp4")>>, <<c>>, {})
          [] mt = AUDIO ->
               LET c == Cmd("forcereencode", file, NoCodec, "aac", outname)
               IN  IF ok THEN Outcome(outname, <<Written("m4a", AUDIO, NoCodec, "aac")>>,
                                      <<c>>, {})
                   ELSE Outcome(NoHandle, <<reserve_tempfile("m4a")>>, <<c>>, {})
          [] mt = GIF   -> videotogif(file, fs, cache, ok)
          [] OTHER      -> Outcome(NoHandle, <<>>, <<>>, {})

\* The record of one orchestration call: the operation, a copy of the input
\* file as it was, the input handle, and what the call did.
\* The kinds an apng file may be detected as.
ApngKinds == {IMAGE, VIDEO, GIF}

\* toapng without the lock_codec assignment.
toapngUnlocked(video, k, fs, ok) ==
    LET outname == Len(fs) + 1
        c == Cmd("toapng", video, "apng", NoCodec, outname)
    IN  IF ok THEN Outcome(outname, <<Written("apng", k, "apng", NoCodec)>>, <<c>>, {})
        ELSE Outcome(NoHandle, <<reserve_tempfile("apng")>>, <<c>>, {})

\* toapng (lines 155-163): the reserved handle is locked before ffmpeg runs,
\* so it stays locked whether or not the run succeeds; no probe of the input.
toapng(video, k, fs, ok) ==
    LET outname == Len(fs) + 1
        c == Cmd("toapng", video, "apng", NoCodec, outname)
    IN  IF ok
        THEN Outcome(outname,
                     <<[Written("apng", k, "apng", NoCodec) EXCEPT !.lock_codec = TRUE]>>,
                     <<c>>, {})
        ELSE Outcome(NoHandle,
                     <<[reserve_tempfile("apng") EXCEPT !.lock_codec = TRUE]>>,
                     <<c>>, {})

CallRecord(name, file, o) ==
    [op |-> name, input |-> file, infile |-> files[file], result |-> o.result,
     reserved |-> Len(o.new), invoked |-> o.cmds]

NoCall ==
    [op |-> "none", input |-> 0, infile |-> reserve_tempfile("in"), result |-> NoHandle,
     reserved |-> 0, invoked |-> <<>>]

Apply(name, file, o) ==
    /\ files' = files \o o.new
    /\ commands' = commands \o o.cmds
    /\ frameRateCache' = frameRateCache \cup o.fps
    /\ last' = CallRecord(name, file, o)
    /\ ncalls' = ncalls + 1

AllReencode ==
    /\ ncalls < MaxCalls
    /\ \E file \in DOMAIN files, ok \in BOOLEAN :
          Apply("allreencode", file, allreencode(file, files, frameRateCache, ok))
    /\ UNCHANGED <<searchVars, probeVars>>

ForceReencode ==
    /\ ncalls < MaxCalls
    /\ \E file \in DOMAIN files, ok \in BOOLEAN :
          Apply("forcereencode", file, forcereencode(file, files, frameRateCache, ok))
    /\ UNCHANGED <<searchVars, probeVars>>

ToApng ==
    /\ ncalls < MaxCalls
    /\ \E video \in DOMAIN files, k \in ApngKinds, ok \in BOOLEAN :
          Apply("toapng", video, toapng(video, k, files, ok))
    /\ UNCHANGED <<searchVars, probeVars>>

(***************************************************************************)
(*                         ffprobe.py                                      *)
(***************************************************************************)

\* Bounds: the files probed and the probe calls made in one behaviour.
MaxProbeFiles == 2
MaxProbes == 3

\* @lru_cache(maxsize=128)
LruMaxSize == 128

ProbeFiles == 1..MaxProbeFiles

\* The probes decorated with lru_cache, and those that are not.
CachedProbes == {"get_frame_rate", "get_duration"}
UncachedProbes == {"get_resolution", "get_vcodec", "get_acodec", "va_codecs"}
Probes == CachedProbes \cup UncachedProbes

RECURSIVE Without(_, _)
\* The sequence s with every occurrence of x taken out.
Without(s, x) ==
    IF s = <<>> THEN <<>>
    ELSE (IF Head(s) = x THEN <<>> ELSE <<Head(s)>>) \o Without(Tail(s), x)

\* lru_cache on a hit: the key becomes the most recently used.
LruHit(keys, f) == Append(Without(keys, f), f)

\* lru_cache on a miss: the key is added, and the least recently used key
\* is dropped when the cache is full.
LruMiss(keys, f) ==
    IF Len(keys) >= LruMaxSize THEN Append(Tail(keys), f) ELSE Append(keys, f)

\* The keys a miss drops from the cache.
LruEvicted(keys, f) ==
    IF Len(keys) >= LruMaxSize THEN {Head(keys)} ELSE {}

InCache(keys, f) == \E i \in 1..Len(keys) : keys[i] = f

ProbeRecord(probe, f, result, ran, evicted) ==
    [probe |-> probe, file |-> f, result |-> result, ran |-> ran,
     repeated |-> probeCalls[probe][f] > 0, evicted |-> evicted,
     n |-> probeLast.n + 1]

NoProbe ==
    [probe |-> "none", file |-> 0, result |-> "none", ran |-> FALSE,
     repeated |-> FALSE, evicted |-> {}, n |-> 0]

Bump(counts, probe, f) == [counts EXCEPT ![probe][f] = @ + 1]

\* get_frame_rate / get_duration (lines 30-63): lru_cache wraps an async def,
\* so what it keeps is the coroutine object of the first call.  A miss
\* creates and awaits a new coroutine (one ffprobe run); a hit gets the
\* coroutine that was already awaited, and awaiting it again raises
\* RuntimeError.
CachedProbe ==
    /\ \E probe \in CachedProbes, f \in ProbeFiles :
          /\ probeLast.n < MaxProbes
          /\ probeCalls' = Bump(probeCalls, probe, f)
          /\ IF InCache(lruCache[probe], f)
             THEN /\ lruCache' = [lruCache EXCEPT ![probe] = LruHit(@, f)]
                  /\ probeRuns' = probeRuns
                  /\ probeLast' = ProbeRecord(probe, f, "raise", FALSE, {})
             ELSE /\ lruCache' = [lruCache EXCEPT ![probe] = LruMiss(@, f)]
                  /\ probeRuns' = Bump(probeRuns, probe, f)
                  /\ probeLast' = ProbeRecord(probe, f, "value", TRUE,
                                              LruEvicted(lruCache[probe], f))
    /\ UNCHANGED <<convVars, searchVars>>

\* get_resolution / get_vcodec / get_acodec / va_codecs (lines 71-139): no
\* decorator; every call runs ffprobe.
UncachedProbe ==
    /\ \E probe \in UncachedProbes, f \in ProbeFiles :
          /\ probeLast.n < MaxProbes
          /\ probeCalls' = Bump(probeCalls, probe, f)
          /\ probeRuns' = Bump(probeRuns, probe, f)
          /\ probeLast' = ProbeRecord(probe, f, "value", TRUE, {})
          /\ UNCHANGED lruCache
    /\ UNCHANGED <<convVars, searchVars>>

(***************************************************************************)
(*                         scandiscord.py                                  *)
(***************************************************************************)

\* Bounds of the conversational state explored.
MaxHistory == 2
MaxCount == 3

\* How many messages older than the history limit a long channel may hold.
MaxBeyond == 1

\* ctx.channel.history(limit=50, ...)
HistoryLimit == 50

\* Message ids: the triggering message is the newest; history messages are
\* older (smaller ids, newest first); a reply target outside the history
\* window is older still.
TriggerId == 100
OldReplyId == 1
HistoryId(i) == TriggerId - i
\* The id of the origin message a thread-starter message refers to.
OriginId(mid) == mid + 1000

Min(a, b) == IF a < b THEN a ELSE b

\* URLs are written <<owning message id, what, index>>.
Url(mid, what, i) == <<mid, what, i>>

Embed(mid, i, type, tenor) ==
    [type |-> type, url |-> Url(mid, "embed", i), tenor |-> tenor]
Attachment(mid, i, txt) == [url |-> Url(mid, "att", i), txt |-> txt]
Sticker(mid, i, lottie) == [url |-> Url(mid, "sticker", i), lottie |-> lottie]

\* The message contents explored.
\*   E: nothing.   A: three attachments, the second a .txt file.
\*   G: a tenor gifv embed, a video embed, and a gifv embed of another host.
\*   M: an image embed (with thumbnail) and a rich embed, one attachment,
\*      a lottie sticker and a png sticker.
Shapes == {"E", "A", "G", "M"}

Content(shape, mid) ==
    CASE shape = "A" ->
           [embeds |-> <<>>,
            attachments |-> <<Attachment(mid, 1, FALSE), Attachment(mid, 2, TRUE),
                              Attachment(mid, 3, FALSE)>>,
            stickers |-> <<>>]
      [] shape = "G" ->
           [embeds |-> <<Embed(mid, 1, "gifv", TRUE), Embed(mid, 2, "video", FALSE),
                         Embed(mid, 3, "gifv", FALSE)>>,
            attachments |-> <<>>,
            stickers |-> <<>>]
      [] shape = "M" ->
           [embeds |-> <<Embed(mid, 1, "image", FALSE), Embed(mid, 2, "rich", FALSE)>>,
            attachments |-> <<Attachment(mid, 1, FALSE)>>,
            stickers |-> <<Sticker(mid, 1, TRUE), Sticker(mid, 2, FALSE)>>]
      [] OTHER ->
           [embeds |-> <<>>, attachments |-> <<>>, stickers |-> <<>>]

\* A discord.Message: its id, its type, its own content and, for a
\* thread-starter message, the content of reference.resolved.
Message(mid, shape) ==
    [id |-> mid, type |-> "default", own |-> Content(shape, mid),
     resolved |-> Content("E", mid)]
ThreadStarter(mid, shape) ==
    [id |-> mid, type |-> "thread_starter_message", own |-> Content("E", mid),
     resolved |-> Content(shape, OriginId(mid))]

\* Lines 32-34: a thread starter is replaced by the message it refers to.
Effective(m) == IF m.type = "thread_starter_message" THEN m.resolved ELSE m.own

\* The messages a channel's history may hold at position i (newest first).
HistoryMessages(i) ==
    { Message(HistoryId(i), sh) : sh \in Shapes }
      \cup { ThreadStarter(HistoryId(i), "A") }

Histories ==
    UNION { { h \in [1..n -> UNION { HistoryMessages(i) : i \in 1..n }] :
                \A i \in 1..n : h[i] \in HistoryMessages(i) } : n \in 0..MaxHistory }

\* Channels with at least HistoryLimit messages before the triggering one:
\* empty messages, but for the newest one, the one at the limit and those
\* beyond it, which are empty or carry attachments.
HotIndexes(n) == {1, HistoryLimit} \cup (HistoryLimit + 1 .. n)
LongHistories ==
    UNION { { [i \in 1..n |->
                 Message(HistoryId(i), IF i \in HotIndexes(n) THEN hot[i] ELSE "E")] :
              hot \in [HotIndexes(n) -> {"E", "A"}] } :
            n \in HistoryLimit .. HistoryLimit + MaxBeyond }

\* The contexts of a command sent to such a channel.
LongContexts ==
    UNION { { [message |-> Message(TriggerId, sh), reference |-> "none",
               resolved |-> Message(OldReplyId, "E"), channel |-> h] : sh \in {"E", "M"} }
            \cup
            { [message |-> Message(TriggerId, "E"), reference |-> "resolved",
               resolved |-> r, channel |-> h] : r \in {Message(OldReplyId, "M"), h[1]} } :
            h \in LongHistories }

\* ctx.message.reference: absent, present but not resolved, or resolved to a
\* message that is either older than the history window or the newest
\* history message.
Contexts ==
    { c \in [message : { Message(TriggerId, sh) : sh \in Shapes },
             reference : {"none", "unresolved", "resolved"},
             resolved : { Message(OldReplyId, sh) : sh \in {"E", "M"} }
                          \cup HistoryMessages(1),
             channel : Histories] :
        /\ c.reference # "resolved" => c.resolved = Message(OldReplyId, "E")
        /\ c.resolved.id # OldReplyId =>
              Len(c.channel) >= 1 /\ c.channel[1] = c.resolved }

\* imagesearch's ignore argument: None, or a list of the triggering message's
\* attachments (kept as the set of their urls).
IgnoreNone == {Url(0, "None", 0)}
Ignores(m) ==
    {IgnoreNone, {}} \cup
    (IF Len(m.own.attachments) = 0 THEN {}
     ELSE { {m.own.attachments[1].url},
            { m.own.attachments[i].url : i \in 1..Len(m.own.attachments) } })

\* ---- handlemessagesave --------------------------------------------------

\* Lines 37-52: the tasks created for the embeds, in creation order.
RECURSIVE EmbedTasks(_, _)
EmbedTasks(embeds, i) ==
    IF i > Len(embeds) THEN <<>>
    ELSE LET e == embeds[i]
             here ==
               IF e.type = "gifv"
               THEN (IF e.tenor THEN <<[kind |-> "tenor", embed |-> i, outcome |-> "pending"]>>
                     ELSE <<>>)
               ELSE IF e.type \in {"image", "video", "audio"}
               THEN <<[kind |-> "length", embed |-> i, outcome |-> "pending"]>> \o
                    (IF e.type = "image"
                     THEN <<[kind |-> "length", embed |-> i, outcome |-> "pending"]>>
                     ELSE <<>>)
               ELSE <<>>
         IN  here \o EmbedTasks(embeds, i + 1)

\* What a task can end with.  fetch: a JSON text with a non-empty results
\* list, with an empty results list, or with an error field; or an exception.
\* contentlength: a positive length, a falsy value, or an exception.
Outcomes(kind) ==
    IF kind = "tenor" THEN {"results", "empty", "error", "exc"}
    ELSE {"present", "absent", "exc"}

\* isinstance(result, str): fetch's text; an exception gathered with
\* return_exceptions=True is not a str.
IsStr(t) == t.kind = "tenor" /\ t.outcome # "exc"
\* Python truthiness of a non-str result: a positive int and an exception
\* object are both truthy.
Truthy(t) == t.outcome \in {"present", "exc"}

\* A detection result: the urls found, or raised.
Found(urls) == [raised |-> FALSE, urls |-> urls]
Raised == [raised |-> TRUE, urls |-> <<>>]

\* Lines 58-65: the loop over the gathered results.  `embed` is the variable
\* left over from the loop of line 39: the message's last embed.
RECURSIVE ProcessResults(_, _, _)
ProcessResults(results, embeds, k) ==
    IF k > Len(results) THEN Found(<<>>)
    ELSE LET r == results[k]
             rest == ProcessResults(results, embeds, k + 1)
             embed == embeds[Len(embeds)]
             mine ==
               IF IsStr(r)
               THEN (IF r.outcome = "error" THEN Found(<<>>)
                     ELSE IF r.outcome = "empty" THEN Raised   \* results[0]: IndexError
                     ELSE Found(<<Url(embeds[r.embed].url[1], "tenor_mp4", r.embed)>>))
               ELSE IF Truthy(r) THEN Found(<<embed.url>>)
               ELSE Found(<<>>)
         IN  IF mine.raised \/ rest.raised THEN Raised
             ELSE Found(mine.urls \o rest.urls)

RECURSIVE SelectUrls(_, _, _)
\* The urls of the items of seq, in order, that are not flagged by field `skip`.
SelectUrls(seq, i, skip) ==
    IF i > Len(seq) THEN <<>>
    ELSE (IF seq[i][skip] THEN <<>> ELSE <<seq[i].url>>) \o SelectUrls(seq, i + 1, skip)

\* Lines 67-72: the attachments: all of them, .txt files aside, unless every
\* one of them is in ignoreatts.
AttachmentUrls(c, ignoreatts) ==
    IF /\ Len(c.attachments) > 0
       /\ \/ ignoreatts = IgnoreNone
          \/ \E i \in 1..Len(c.attachments) : c.attachments[i].url \notin ignoreatts
    THEN SelectUrls(c.attachments, 1, "txt")
    ELSE <<>>

\* Lines 74-80: the stickers.
StickerUrls(c) == SelectUrls(c.stickers, 1, "lottie")

\* handlemessagesave emitting attachments, then stickers, then embeds.
handlemessagesaveAttFirst(m, ignoreatts, results) ==
    LET c == Effective(m)
        fromEmbeds == IF Len(c.embeds) > 0 THEN ProcessResults(results, c.embeds, 1)
                      ELSE Found(<<>>)
    IN  IF fromEmbeds.raised THEN Raised
        ELSE Found(AttachmentUrls(c, ignoreatts) \o StickerUrls(c) \o fromEmbeds.urls)

\* handlemessagesave once its gather has returned `results`.
handlemessagesave(m, ignoreatts, results) ==
    LET c == Effective(m)
        fromEmbeds == IF Len(c.embeds) > 0 THEN ProcessResults(results, c.embeds, 1)
                      ELSE Found(<<>>)
    IN  IF fromEmbeds.raised THEN Raised
        ELSE Found(fromEmbeds.urls \o AttachmentUrls(c, ignoreatts) \o StickerUrls(c))

\* ---- imagesearch --------------------------------------------------------

\* The walk: position 0 is ctx.message, position 1 the reply target,
\* position 1 + i the i-th message of the history iterator.
\* A history iterator with no limit.
HistoryOfUnlimited(c) == c.channel

HistoryOf(c) == SubSeq(c.channel, 1, Min(HistoryLimit, Len(c.channel)))
MessageAt(p) ==
    IF p = 0 THEN ctx.message
    ELSE IF p = 1 THEN ctx.resolved
    ELSE HistoryOf(ctx)[p - 1]

\* Lines 110-112: the first history message from index `from` on whose id has
\* not been seen; 0 when the iterator is exhausted.
FirstUnseen(from, seen) ==
    LET h == HistoryOf(ctx)
        cand == { i \in from..Len(h) : h[i].id \notin seen }
    IN  IF cand = {} THEN 0
        ELSE CHOOSE i \in cand : \A j \in cand : i <= j

\* The position processed after position p, given seen_messages; -1: none.
NextPosition(p, seen) ==
    IF p = 0 /\ ctx.reference = "resolved" THEN 1
    ELSE LET i == FirstUnseen(IF p <= 1 THEN 1 ELSE p, seen)
         IN  IF i = 0 THEN -1 ELSE i + 1

NoReturn == [kind |-> "running", val |-> <<>>]
ReturnList(l) == [kind |-> "list", val |-> l]
ReturnFalse == [kind |-> "False", val |-> <<>>]
ReturnRaise == [kind |-> "raise", val |-> <<>>]

Take(s, n) == SubSeq(s, 1, Min(n, Len(s)))

\* handlemessagesave is entered for position p: the embed tasks are created.
Enter(p) ==
    /\ cur' = p
    /\ seen_messages' = seen_messages \cup {MessageAt(p).id}
    /\ visited' = Append(visited, p)
    /\ tasks' = EmbedTasks(Effective(MessageAt(p)).embeds, 1)
    /\ pc' = "gather"

\* Lines 92-95: imagesearch starts on ctx.message.
Start ==
    /\ pc = "start"
    /\ Enter(0)
    /\ UNCHANGED <<ctx, nargs, ignore, outfiles, origin, ret>>
    /\ UNCHANGED <<convVars, probeVars>>

\* One of the gathered tasks completes.
TaskDone ==
    /\ pc = "gather"
    /\ \E i \in 1..Len(tasks) :
          /\ tasks[i].outcome = "pending"
          /\ \E o \in Outcomes(tasks[i].kind) :
                tasks' = [tasks EXCEPT ![i].outcome = o]
    /\ UNCHANGED <<ctx, nargs, ignore, pc, cur, outfiles, origin, seen_messages,
                   visited, ret>>
    /\ UNCHANGED <<convVars, probeVars>>

AllDone == \A i \in 1..Len(tasks) : tasks[i].outcome # "pending"

\* Finish putting a message's candidates in front of the earlier ones.
FinishPrepend(found) ==
    LET out == found.urls \o outfiles
        org == [i \in 1..Len(found.urls) |-> cur] \o origin
        nxt == NextPosition(cur, seen_messages)
    IN  IF found.raised
        THEN /\ ret' = ReturnRaise
             /\ pc' = "done"
             /\ UNCHANGED <<cur, tasks, outfiles, origin, seen_messages, visited>>
        ELSE /\ outfiles' = out
             /\ origin' = org
             /\ IF Len(out) >= nargs
                THEN /\ ret' = ReturnList(Take(out, nargs))
                     /\ pc' = "done"
                     /\ UNCHANGED <<cur, tasks, seen_messages, visited>>
                ELSE IF nxt = -1
                THEN /\ ret' = IF Len(out) = 0 THEN ReturnFalse ELSE ReturnList(out)
                     /\ pc' = "done"
                     /\ UNCHANGED <<cur, tasks, seen_messages, visited>>
                ELSE /\ Enter(nxt)
                     /\ UNCHANGED ret

\* The gather has returned: handlemessagesave finishes, imagesearch extends
\* outfiles and either returns or goes on to the next message.
Finish(found) ==
    LET out == outfiles \o found.urls
        org == origin \o [i \in 1..Len(found.urls) |-> cur]
        nxt == NextPosition(cur, seen_messages)
    IN  IF found.raised
        THEN /\ ret' = ReturnRaise
             /\ pc' = "done"
             /\ UNCHANGED <<cur, tasks, outfiles, origin, seen_messages, visited>>
        ELSE /\ outfiles' = out
             /\ origin' = org
             /\ IF Len(out) >= nargs
                THEN /\ ret' = ReturnList(Take(out, nargs))
                     /\ pc' = "done"
                     /\ UNCHANGED <<cur, tasks, seen_messages, visited>>
                ELSE IF nxt = -1
                THEN /\ ret' = IF Len(out) = 0 THEN ReturnFalse ELSE ReturnList(out)
                     /\ pc' = "done"
                     /\ UNCHANGED <<cur, tasks, seen_messages, visited>>
                ELSE /\ Enter(nxt)
                     /\ UNCHANGED ret

EndMessage ==
    /\ pc = "gather"
    /\ AllDone
    /\ Finish(handlemessagesave(MessageAt(cur),
                                IF cur = 0 THEN ignore ELSE IgnoreNone, tasks))
    /\ UNCHANGED <<ctx, nargs, ignore>>
    /\ UNCHANGED <<convVars, probeVars>>


\* ---- tenorsearch --------------------------------------------------------

ReturnUrl(u) == [kind |-> "url", val |-> <<u>>]

\* What handletenor's lookup can end with, for a message whose first embed
\* is a gifv; "skip" stands for the paths that make no lookup.
TenorOutcomes(m) ==
    IF Len(m.own.embeds) > 0 /\ m.own.embeds[1].type = "gifv"
    THEN {"results", "empty", "error", "exc"}
    ELSE {"skip"}

\* handletenor(m, ctx, gif), given how the lookup ends: a url, False (the
\* lookup answered with an error field), None (no gifv first embed) or raised.
handletenor(m, o) ==
    IF Len(m.own.embeds) > 0 /\ m.own.embeds[1].type = "gifv"
    THEN CASE o = "error" -> ReturnFalse
           [] o = "results" -> ReturnUrl(Url(m.id, "tenor", 1))
           [] OTHER -> ReturnRaise      \* fetch raised, or results[0] on []
    ELSE [kind |-> "None", val |-> <<>>]

\* ctx.channel.history(limit=50): the newest messages of the channel, the
\* triggering message first.
TenorHistory == Take(<<ctx.message>> \o ctx.channel, HistoryLimit)

\* Position (in the walk numbering of imagesearch) of TenorHistory[i].
TenorPosition(i) == IF i = 1 THEN 0 ELSE i

\* tenorsearch whose reply branch falls through to the history walk when the
\* reply target has no gifv embed.
TenorReplyFallsThrough ==
    /\ pc = "start"
    /\ ctx.reference # "none"
    /\ visited' = Append(visited, 1)
    /\ IF ctx.reference = "unresolved"
       THEN ret' = ReturnRaise /\ pc' = "done"
       ELSE \E o \in TenorOutcomes(ctx.resolved) :
              LET hm == handletenor(ctx.resolved, o)
              IN  IF hm.kind = "None"
                  THEN ret' = ret /\ pc' = "walk"
                  ELSE ret' = hm /\ pc' = "done"
    /\ cur' = 1
    /\ UNCHANGED <<ctx, nargs, ignore, tasks, outfiles, origin, seen_messages>>
    /\ UNCHANGED <<convVars, probeVars>>

\* Lines 154-160: the triggering message is a reply: only the reply target is
\* looked at.
TenorReply ==
    /\ pc = "start"
    /\ ctx.reference # "none"
    /\ visited' = Append(visited, 1)
    /\ IF ctx.reference = "unresolved"
       THEN ret' = ReturnRaise       \* None.embeds
       ELSE \E o \in TenorOutcomes(ctx.resolved) :
              LET hm == handletenor(ctx.resolved, o)
              IN  ret' = IF hm.kind = "None" THEN ReturnFalse ELSE hm
    /\ pc' = "done"
    /\ cur' = 1
    /\ UNCHANGED <<ctx, nargs, ignore, tasks, outfiles, origin, seen_messages>>
    /\ UNCHANGED <<convVars, probeVars>>

\* Lines 161-166: one iteration of the history loop; cur counts the messages
\* already taken from the iterator.
TenorWalk ==
    /\ \/ pc = "start" /\ ctx.reference = "none"
       \/ pc = "walk"
    /\ LET i == IF pc = "start" THEN 1 ELSE cur + 1
           m == TenorHistory[i]
       IN  /\ i <= Len(TenorHistory)
           /\ visited' = Append(visited, TenorPosition(i))
           /\ cur' = i
           /\ \E o \in TenorOutcomes(m) :
                LET hm == handletenor(m, o)
                IN  IF hm.kind # "None"
                    THEN ret' = hm /\ pc' = "done"
                    ELSE IF i = Len(TenorHistory)
                    THEN ret' = ReturnFalse /\ pc' = "done"
                    ELSE ret' = ret /\ pc' = "walk"
    /\ UNCHANGED <<ctx, nargs, ignore, tasks, outfiles, origin, seen_messages>>
    /\ UNCHANGED <<convVars, probeVars>>

\* ---- specifications -----------------------------------------------------

IdleContext ==
    [message |-> Message(TriggerId, "E"), reference |-> "none",
     resolved |-> Message(OldReplyId, "E"), channel |-> <<>>]

SearchIdle ==
    /\ ctx = IdleContext
    /\ nargs = 1
    /\ ignore = IgnoreNone
    /\ pc = "idle"
    /\ cur = 0
    /\ tasks = <<>>
    /\ outfiles = <<>>
    /\ origin = <<>>
    /\ seen_messages = {}
    /\ visited = <<>>
    /\ ret = NoReturn

ConvIdle ==
    /\ files = <<>>
    /\ commands = <<>>
    /\ frameRateCache = {}
    /\ last = NoCall
    /\ ncalls = 0

ProbeIdle ==
    /\ lruCache = [p \in CachedProbes |-> <<>>]
    /\ probeRuns = [p \in Probes |-> [f \in ProbeFiles |-> 0]]
    /\ probeCalls = [p \in Probes |-> [f \in ProbeFiles |-> 0]]
    /\ probeLast = NoProbe

InitConv ==
    /\ \E f \in InputFiles : files = <<f>>
    /\ commands = <<>>
    /\ frameRateCache = {}
    /\ last = NoCall
    /\ ncalls = 0
    /\ SearchIdle
    /\ ProbeIdle

InitSearch ==
    /\ ctx \in Contexts
    /\ nargs \in 0..MaxCount
    /\ ignore \in Ignores(ctx.message)
    /\ pc = "start"
    /\ cur = 0
    /\ tasks = <<>>
    /\ outfiles = <<>>
    /\ origin = <<>>
    /\ seen_messages = {}
    /\ visited = <<>>
    /\ ret = NoReturn
    /\ ConvIdle
    /\ ProbeIdle

\* imagesearch is called in a channel with a long history.
InitLong ==
    /\ ctx \in LongContexts
    /\ nargs \in 1..MaxCount
    /\ ignore = IgnoreNone
    /\ pc = "start"
    /\ cur = 0
    /\ tasks = <<>>
    /\ outfiles = <<>>
    /\ origin = <<>>
    /\ seen_messages = {}
    /\ visited = <<>>
    /\ ret = NoReturn
    /\ ConvIdle
    /\ ProbeIdle

InitTenor ==
    /\ ctx \in Contexts
    /\ nargs = 1
    /\ ignore = IgnoreNone
    /\ pc = "start"
    /\ cur = 0
    /\ tasks = <<>>
    /\ outfiles = <<>>
    /\ origin = <<>>
    /\ seen_messages = {}
    /\ visited = <<>>
    /\ ret = NoReturn
    /\ ConvIdle
    /\ ProbeIdle

\* A process that has made no probe call yet.
InitProbe ==
    /\ ProbeIdle
    /\ ConvIdle
    /\ SearchIdle

NextConv == AllReencode \/ ForceReencode \/ ToApng
NextSearch == Start \/ TaskDone \/ EndMessage
NextTenor == TenorReply \/ TenorWalk
NextProbe == CachedProbe \/ UncachedProbe

SpecConv == InitConv /\ [][NextConv]_vars
Spec == InitSearch /\ [][NextSearch]_vars
SpecTenor == InitTenor /\ [][NextTenor]_vars
SpecLong == InitLong /\ [][NextSearch]_vars
SpecProbe == InitProbe /\ [][NextProbe]_vars

(***************************************************************************)
(*                     Properties: conversion.py                           *)
(***************************************************************************)

FourKinds == {IMAGE, VIDEO, AUDIO, GIF}

\* The file's codecs are the canonical ones of its kind.
Canonical(f) ==
    \/ f.kind = VIDEO /\ f.vcodec = "h264" /\ f.acodec = "aac"
    \/ f.kind = AUDIO /\ f.acodec = "aac"

PassedThrough ==
    last.result = last.input /\ last.reserved = 0 /\ last.invoked = <<>>

\* C1: allreencode applied to a VIDEO or AUDIO file whose codecs are already
\* canonical returns the input handle itself, reserves no temp file and makes
\* no encoder invocation.
C1_CanonicalPassesThrough ==
    (last.op = "allreencode" /\ Canonical(last.infile) /\ last.result # NoHandle) =>
        PassedThrough

\* C2: forcereencode applied to a file of a supported kind never returns the
\* input handle: the handle it returns is a newly reserved file written by an
\* encoder invocation, whatever the existing codec.
C2_ForceAlwaysEncodes ==
    (last.op = "forcereencode" /\ last.infile.kind \in FourKinds
        /\ last.result # NoHandle) =>
       /\ last.result # last.input
       /\ last.reserved = 1
       /\ Len(last.invoked) = 1
       /\ last.invoked[1].out = last.result

\* C3 (as claimed): a file with lock_codec set, of any of the four kinds, is
\* never passed to an encoder by allreencode or forcereencode; both return
\* the input handle.
C3_LockedNeverEncoded ==
    (last.op \in {"allreencode", "forcereencode"} /\ last.infile.lock_codec
        /\ last.infile.kind \in FourKinds /\ last.result # NoHandle) =>
       (last.invoked = <<>> /\ last.result = last.input)

\* C3 (amended): allreencode never passes a locked file of any of the four
\* kinds to an encoder and returns the input handle, reserving nothing;
\* forcereencode does not look at lock_codec: a locked IMAGE, VIDEO or AUDIO
\* file is passed to the encoder exactly once and the input handle is not
\* returned.
C3_LockHonouredByAllreencodeOnly ==
    /\ (last.op = "allreencode" /\ last.infile.lock_codec
           /\ last.infile.kind \in FourKinds) => PassedThrough
    /\ (last.op = "forcereencode" /\ last.infile.lock_codec
           /\ last.infile.kind \in {IMAGE, VIDEO, AUDIO}) =>
          /\ Len(last.invoked) = 1
          /\ last.invoked[1].input = last.input
          /\ last.result # last.input

\* A locked, non-canonical VIDEO went through allreencode untouched.
C3_Witness ==
    /\ last.op = "allreencode"
    /\ last.infile.lock_codec
    /\ last.infile.kind = VIDEO
    /\ last.infile.vcodec = "vp9"
    /\ last.result = last.input

\* C9 (as claimed): allreencode applied to an unlocked GIF never passes the
\* input through: it always reserves a new file and runs the animated
\* conversion, even when the video codec already is gif.
C9_GifNeverPassesThrough ==
    (last.op = "allreencode" /\ last.infile.kind = GIF /\ ~last.infile.lock_codec) =>
       /\ last.result # last.input
       /\ last.reserved = 1
       /\ Len(last.invoked) = 1

\* C9 (amended): allreencode applied to an unlocked GIF passes the input
\* through (nothing reserved, no encoder invocation) exactly when its video
\* codec already is gif; otherwise it never returns the input: it reserves one
\* new gif file, and a handle it returns is that file, written by one
\* animated-conversion invocation on the input.
C9_GifPassesThroughOnlyWhenGif ==
    (last.op = "allreencode" /\ last.infile.kind = GIF /\ ~last.infile.lock_codec) =>
       IF last.infile.vcodec = "gif"
       THEN PassedThrough
       ELSE /\ last.result # last.input
            /\ last.reserved = 1
            /\ last.result # NoHandle =>
                  /\ Len(last.invoked) = 1
                  /\ last.invoked[1].op = "videotogif"
                  /\ last.invoked[1].input = last.input
                  /\ last.invoked[1].out = last.result
                  /\ files[last.result].ext = "gif"

\* An unlocked GIF whose codec is gif went through allreencode untouched.
C9_Witness ==
    /\ last.op = "allreencode"
    /\ last.infile.kind = GIF
    /\ ~last.infile.lock_codec
    /\ last.infile.vcodec = "gif"
    /\ last.result = last.input
    /\ commands = <<>>

(***************************************************************************)
(*                     Properties: scandiscord.py                          *)
(***************************************************************************)

\* The candidates of outfiles that came from walk position p.
FromPosition(p) == { k \in 1..Len(outfiles) : origin[k] = p }

IsEmbedUrl(u) == u[2] \in {"embed", "tenor_mp4"}
IsAttachmentUrl(u) == u[2] = "att"
IsStickerUrl(u) == u[2] = "sticker"

\* The urls of the .txt attachments of a content.
TxtUrls(c) == { c.attachments[i].url : i \in { j \in 1..Len(c.attachments) :
                                                  c.attachments[j].txt } }

\* C4: imagesearch never returns a list longer than nargs and never returns
\* an empty list: with no candidate to return the result is False, also when
\* nargs = 0.
C4_BoundedAndNeverEmpty ==
    ret.kind = "list" => (Len(ret.val) <= nargs /\ Len(ret.val) > 0)

\* C5: no attachment listed in ignore, and no .txt attachment, is among the
\* candidates extracted from the triggering message.
C5_IgnoredNeverEmitted ==
    ret.kind = "list" =>
        \A k \in 1..Len(ret.val) :
            origin[k] = 0 =>
                /\ ret.val[k] \notin ignore
                /\ ret.val[k] \notin TxtUrls(ctx.message.own)

\* The emission order the claim states, and the one the code has.
ClaimedRank(u) == IF IsAttachmentUrl(u) THEN 1 ELSE IF IsStickerUrl(u) THEN 2 ELSE 3
CodeRank(u) == IF IsEmbedUrl(u) THEN 1 ELSE IF IsAttachmentUrl(u) THEN 2 ELSE 3

\* C6 (as claimed): within one message the candidates come in the order
\* attachments, stickers, embedded media (looked at for a message none of
\* whose checks raised).
C6_AttachmentsFirst ==
    (pc = "done" /\ nargs >= 1 /\ \A t \in 1..Len(tasks) : tasks[t].outcome # "exc") =>
        \A i, j \in FromPosition(cur) :
            i < j => ClaimedRank(outfiles[i]) <= ClaimedRank(outfiles[j])

\* The first attachment of the triggering message that is not a .txt file.
FirstAttachment ==
    LET a == ctx.message.own.attachments
        ok == { i \in 1..Len(a) : ~a[i].txt }
    IN  a[CHOOSE i \in ok : \A j \in ok : i <= j].url

\* C6 (amended): within one message the candidates come in the order embedded
\* media, attachments (in the message's own attachment order), stickers; so
\* for nargs = 1 imagesearch returns the triggering message's first
\* attachment only when that message's embeds yielded no candidate, and
\* returns an embed candidate otherwise.
C6_EmbedsFirst ==
    /\ \A i, j \in 1..Len(outfiles) :
          (i < j /\ origin[i] = origin[j]) =>
              /\ CodeRank(outfiles[i]) <= CodeRank(outfiles[j])
              /\ (IsAttachmentUrl(outfiles[i]) /\ IsAttachmentUrl(outfiles[j])) =>
                     outfiles[i][3] < outfiles[j][3]
    /\ (ret.kind = "list" /\ nargs = 1 /\ visited = <<0>>
           /\ \E k \in FromPosition(0) : IsAttachmentUrl(outfiles[k])) =>
          IF \E k \in FromPosition(0) : IsEmbedUrl(outfiles[k])
          THEN IsEmbedUrl(ret.val[1])
          ELSE ret.val = <<FirstAttachment>>

\* A message yielded an embed candidate ahead of its attachment and its
\* sticker, and imagesearch with nargs = 1 returned the embed candidate.
C6_Witness ==
    /\ ret.kind = "list"
    /\ nargs = 1
    /\ visited = <<0>>
    /\ Len(outfiles) >= 3
    /\ \A t \in 1..Len(tasks) : tasks[t].outcome \in {"present", "absent"}
    /\ IsEmbedUrl(outfiles[1])
    /\ IsEmbedUrl(ret.val[1])
    /\ \E j, k \in 1..Len(outfiles) :
          j < k /\ IsAttachmentUrl(outfiles[j]) /\ IsStickerUrl(outfiles[k])

\* The tasks of the message processed last that found their media.
Succeeded == { i \in 1..Len(tasks) : tasks[i].outcome \in {"present", "results"} }

\* C7: a failed check (a length check that raises or reports absence, a
\* lookup that fails in transport, answers with an error field or has no
\* results) yields no candidate, its siblings, the attachments and the
\* stickers still yield theirs, and imagesearch does not raise.
C7_FailedCheckDropsOnlyItself ==
    /\ ret.kind # "raise"
    /\ (pc = "done" /\ ret.kind # "raise") =>
          /\ Cardinality({ k \in FromPosition(cur) : IsEmbedUrl(outfiles[k]) })
                = Cardinality(Succeeded)
          /\ Cardinality({ k \in FromPosition(cur) : IsAttachmentUrl(outfiles[k]) })
                = Len(AttachmentUrls(Effective(MessageAt(cur)),
                                     IF cur = 0 THEN ignore ELSE IgnoreNone))
          /\ Cardinality({ k \in FromPosition(cur) : IsStickerUrl(outfiles[k]) })
                = Len(StickerUrls(Effective(MessageAt(cur))))

\* The id of the message whose content was extracted at walk position p.
ExtractedId(p) ==
    LET m == MessageAt(p)
    IN  IF m.type = "thread_starter_message" THEN OriginId(m.id) ELSE m.id

\* C10: in outfiles, and so in the list returned, the candidates of the
\* triggering message come before those of the reply target, which come
\* before those of the history, newest message first; each candidate belongs
\* to the message of its walk position; and while a message's checks are
\* awaited no candidate of that or of a later message has been emitted.
C10_WalkOrder ==
    /\ Len(origin) = Len(outfiles)
    /\ \A i, j \in 1..Len(outfiles) :
          i < j =>
             /\ origin[i] <= origin[j]
             /\ (origin[i] >= 2 /\ origin[i] < origin[j]) =>
                    MessageAt(origin[i]).id > MessageAt(origin[j]).id
    /\ \A k \in 1..Len(outfiles) : outfiles[k][1] = ExtractedId(origin[k])
    /\ ret.kind = "list" => ret.val = Take(outfiles, Len(ret.val))
    /\ pc = "gather" => \A k \in 1..Len(outfiles) : origin[k] < cur

\* A returned list holding candidates of the triggering message, of the
\* reply target and of the history.
C10_Witness ==
    /\ ret.kind = "list"
    /\ Len(ret.val) = Len(outfiles)
    /\ FromPosition(0) # {}
    /\ FromPosition(1) # {}
    /\ \E p \in 2..(MaxHistory + 1) : FromPosition(p) # {}

\* ---- tenorsearch --------------------------------------------------------

HasGifv(m) == Len(m.own.embeds) > 0 /\ m.own.embeds[1].type = "gifv"

\* C8 (as claimed): when the reply target has no gif-host embed, tenorsearch
\* goes on to walk the channel history (looked at when that history holds a
\* message with a gif-host embed).
C8_ReplyThenHistory ==
    (pc = "done" /\ ctx.reference = "resolved" /\ ~HasGifv(ctx.resolved)
        /\ \E i \in 1..Len(TenorHistory) : HasGifv(TenorHistory[i])) =>
        \E k \in 1..Len(visited) : visited[k] # 1

\* C8 (amended): when the triggering message is a reply, tenorsearch inspects
\* the reply target only, and returns False without walking the history when
\* that target's first embed is not a gifv.  Only when the triggering message
\* is not a reply does it walk the history, newest first and starting with
\* the triggering message, up to the first message whose first embed is a
\* gifv: it returns that message's resolved url, or False when the lookup
\* answered with an error field.  It also returns False when no walked
\* message has such an embed.
C8_ReplyOnlyElseHistory ==
    pc = "done" =>
       /\ ctx.reference # "none" =>
            /\ visited = <<1>>
            /\ (ctx.reference = "resolved" /\ ~HasGifv(ctx.resolved)) => ret = ReturnFalse
            /\ ret.kind = "url" => (HasGifv(ctx.resolved)
                                     /\ ret.val = <<Url(ctx.resolved.id, "tenor", 1)>>)
       /\ ctx.reference = "none" =>
            /\ Len(visited) \in 1..Len(TenorHistory)
            /\ \A i \in 1..Len(visited) : visited[i] = TenorPosition(i)
            /\ \A i \in 1..(Len(visited) - 1) : ~HasGifv(TenorHistory[i])
            /\ ret.kind = "url" =>
                  /\ HasGifv(TenorHistory[Len(visited)])
                  /\ ret.val = <<Url(TenorHistory[Len(visited)].id, "tenor", 1)>>
            /\ ret.kind = "False" =>
                  \/ HasGifv(TenorHistory[Len(visited)])
                  \/ Len(visited) = Len(TenorHistory)

\* A reply to a message without gifv embed returned False although the
\* history holds a message with one.
C8_Witness ==
    /\ pc = "done"
    /\ ctx.reference = "resolved"
    /\ ~HasGifv(ctx.resolved)
    /\ ret = ReturnFalse
    /\ \E i \in 1..Len(TenorHistory) : HasGifv(TenorHistory[i])

\* C11 (as stated): for every probe and every file, at most one external
\* ffprobe run is ever made, a repeated call makes no run and returns the
\* value the first call returned, and no call evicts a cache entry.
C11_OneRunPerProbeAndFile ==
    /\ \A p \in Probes, f \in ProbeFiles : probeRuns[p][f] <= 1
    /\ probeLast.repeated => (probeLast.result = "value" /\ ~probeLast.ran)
    /\ probeLast.evicted = {}

\* C13: the handle toapng returns has lock_codec set, whatever the input, and
\* allreencode applied to a file toapng produced returns that very handle,
\* reserves nothing and makes no encoder invocation.
C13_ApngIsLocked ==
    /\ (last.op = "toapng" /\ last.result # NoHandle) =>
          (files[last.result].ext = "apng" /\ files[last.result].lock_codec)
    /\ \A i \in DOMAIN files : files[i].ext = "apng" => files[i].lock_codec
    /\ (last.op = "allreencode" /\ last.infile.ext = "apng") => PassedThrough

\* allreencode has been applied to the handle an earlier toapng returned.
C13_Witness ==
    /\ ncalls = 2
    /\ last.op = "allreencode"
    /\ last.infile.ext = "apng" /\ last.infile.kind \in ApngKinds
    /\ Len(commands) = 1 /\ commands[1].op = "toapng" /\ commands[1].out = last.input
    /\ last.result = last.input

\* The embeds of content c that get a length check of their own url.
CheckedEmbeds(c) ==
    { i \in 1..Len(c.embeds) : c.embeds[i].type \in {"image", "video", "audio"} }

\* The check of embed i's own url: the first length task created for it.
OwnCheck(i) ==
    LET mine == { k \in 1..Len(tasks) : tasks[k].kind = "length" /\ tasks[k].embed = i }
    IN  CHOOSE k \in mine : \A j \in mine : k <= j

\* C14 (as stated): once the message processed last is done, with no check
\* having raised, its embed candidates are exactly the urls of the
\* image/video/audio embeds whose own url check succeeded: one candidate for
\* each such embed, carrying that embed's url, and no other.
C14_OneCandidatePerCheckedEmbed ==
    (/\ pc = "done" /\ ret.kind # "raise" /\ nargs >= 1
     /\ \A k \in 1..Len(tasks) : tasks[k].outcome # "exc") =>
        LET c == Effective(MessageAt(cur))
            ok == { i \in CheckedEmbeds(c) : tasks[OwnCheck(i)].outcome = "present" }
            emitted == { k \in FromPosition(cur) : outfiles[k][2] = "embed" }
        IN  /\ \A i \in ok :
                  Cardinality({ k \in emitted : outfiles[k] = c.embeds[i].url }) = 1
            /\ \A k \in emitted : \E i \in ok : outfiles[k] = c.embeds[i].url

\* The ids of the messages of ctx.channel older than the HistoryLimit most
\* recent ones, and of the messages a thread starter among them refers to.
BeyondIds ==
    UNION { {ctx.channel[i].id, OriginId(ctx.channel[i].id)} :
            i \in HistoryLimit + 1 .. Len(ctx.channel) }

\* C12: the history step extracts only from the HistoryLimit most recent
\* messages before the triggering one, newest first; over the triggering
\* message, the reply target and the history no message id is extracted
\* from twice; and no message older than those HistoryLimit is extracted
\* from, nor any candidate of it emitted, however few candidates were found.
C12_HistoryWindow ==
    /\ \A k \in 1..Len(visited) :
          visited[k] >= 2 =>
             /\ visited[k] - 1 <= HistoryLimit
             /\ visited[k] - 1 <= Len(ctx.channel)
             /\ MessageAt(visited[k]) = ctx.channel[visited[k] - 1]
             /\ MessageAt(visited[k]).id < TriggerId
    /\ \A j, k \in 1..Len(visited) :
          j < k => /\ visited[j] < visited[k]
                   /\ MessageAt(visited[j]).id # MessageAt(visited[k]).id
    /\ \A k \in 1..Len(outfiles) : outfiles[k][1] \notin BeyondIds
    /\ Len(visited) <= HistoryLimit + 2

\* The search has ended short of nargs candidates in a channel that holds a
\* message with attachments just beyond the limit; the reply target was the
\* newest history message, skipped by the history step, and the message at
\* the limit was extracted from.
C12_Witness ==
    /\ pc = "done" /\ ret.kind # "raise"
    /\ Len(outfiles) < nargs
    /\ Len(ctx.channel) > HistoryLimit
    /\ Len(ctx.channel[HistoryLimit + 1].own.attachments) > 0
    /\ ctx.reference = "resolved" /\ ctx.resolved = ctx.channel[1]
    /\ visited[Len(visited)] = HistoryLimit + 1
    /\ Len(visited) = HistoryLimit + 1

====
